---- MODULE Spec2Model ----
(***************************************************************************)
(* Never Forget Vocab (src/app.py): a Streamlit script that is re-run from *)
(* top to bottom on every user interaction.  The model keeps                *)
(*   - the session dictionary st.session_state (ss),                        *)
(*   - the value of the search box (q),                                     *)
(*   - what the last run of the script put on the page (view): the widgets  *)
(*     a user can act on, their disabled flags, and the values the on_click *)
(*     lambdas of that run still refer to,                                  *)
(*   - the st.cache_data memo of generate_one_sentence (cache).            *)
(* One action is one user interaction: the widget callbacks followed by     *)
(* the whole script run it triggers.                                        *)
(* The pure functions get_page_slice and validate_len are also applied on  *)
(* their own, to every input of a bounded range (walk, sample).             *)
(***************************************************************************)
EXTENDS Integers, Sequences, FiniteSets, TLC

VARIABLES words, client, queries, ss, q, view, cache, last, walk, sample

vars == <<words, client, queries, ss, q, view, cache, last, walk, sample>>

\* --------------------------------------------------------------- bounds
\* Largest word list of a session (two table pages of WORDS_PER_PAGE).
MaxN == 12
\* Longest list of generated sentences a session builds up.
MaxGen == 2
\* Lowest page_idx a session is followed to.
MaxUnder == 1
\* Most provider calls of a session.
MaxCalls == 2
\* Largest word list of the page-slice walk.
MaxSliceN == 34
\* Most words of a sentence whose length is validated.
MaxWords == 27

\* ------------------------------------------------------- program constants
WORDS_PER_PAGE == 10

\* ------------------------------------------------------------------ text
\* A text is a sequence of one-character strings.
Space == " "

Min(S) == CHOOSE x \in S : \A y \in S : x <= y
Max2(a, b) == IF a >= b THEN a ELSE b
Min2(a, b) == IF a <= b THEN a ELSE b

\* str.lower() on one character.
LowerChar(ch) == IF ch = "A" THEN "a" ELSE IF ch = "B" THEN "b" ELSE ch

\* str.lower()
Lower(s) == [k \in 1..Len(s) |-> LowerChar(s[k])]

RECURSIVE LStrip(_)
LStrip(s) == IF s # <<>> /\ Head(s) = Space THEN LStrip(Tail(s)) ELSE s

RECURSIVE RStrip(_)
RStrip(s) ==
  IF s # <<>> /\ s[Len(s)] = Space THEN RStrip(SubSeq(s, 1, Len(s) - 1)) ELSE s

\* str.strip()
Strip(s) == RStrip(LStrip(s))

\* re.compile(pat) raises: over the modelled alphabet the only way is an
\* opening parenthesis, which nothing can close.
RegexError(pat) == \E k \in 1..Len(pat) : pat[k] = "("

\* One pattern character against one text character: "." is the wildcard.
RegexCharMatches(pc, ch) == pc = "." \/ pc = ch

\* re.search(pat, s) finds a match (pandas Series.str.contains, regex=True).
RegexSearch(pat, s) ==
  \E k \in 0..(Len(s) - Len(pat)) :
     \A j \in 1..Len(pat) : RegexCharMatches(pat[j], s[k + j])

\* ------------------------------------------------------------- word list
\* The "Words" column of the CSV, row 0 first.
Lexicon ==
  << <<"a","b">>,     <<"B","a"," ">>, <<"a",".","c">>, <<"a","b","c">>,
     <<"b","c">>,     <<"c","a">>,     <<"c","c">>,     <<"a","c">>,
     <<"b","b">>,     <<"a","a">>,     <<"a","d">>,     <<"d","c">>,
     <<"d","a">>,     <<"d","b">>,     <<"d","d">> >>

\* The CSV's first n rows; with a repeated word, "near" repeats row 3 in row 4 (same table
\* page), "far" repeats row 3 in the last row.
Store(n, dup) ==
  [k \in 1..n |-> IF dup = "near" /\ k = 5 THEN Lexicon[4]
                  ELSE IF dup = "far" /\ k = n /\ k > 4 THEN Lexicon[4]
                  ELSE Lexicon[k]]

\* len(words_df)
TOTAL == Len(words)
\* (TOTAL + WORDS_PER_PAGE - 1) // WORDS_PER_PAGE
TOTAL_PAGES == (TOTAL + WORDS_PER_PAGE - 1) \div WORDS_PER_PAGE

\* words_df.iloc[i]["Words"], rows counted from 0.
WordAt(i) == words[i + 1]
\* words_df["word_lc"] of row i.
word_lc(i) == Lower(Strip(WordAt(i)))
\* words_df.index[words_df["Words"] == w][0]
IndexOf(w) == Min({i \in 0..(TOTAL - 1) : WordAt(i) = w})
\* The Definition cell of the row a word resolves to.
DefinitionOf(w) == <<"def", IndexOf(w)>>

\* ------------------------------------------------------- sentence generation
Levels == {"Easy", "Moderate", "Hard"}

\* The characters str.split() splits on.
Whitespace == {" ", "\t", "\n"}

\* len(s.split()): the runs of non-whitespace characters in s.
SplitCount(s) ==
  Cardinality({k \in 1..Len(s) :
                 s[k] \notin Whitespace /\ (k = 1 \/ s[k - 1] \in Whitespace)})

\* A length check whose lower limits are exclusive.
validate_len_Exclusive(level, s) ==
  LET wc == SplitCount(s) IN
  IF level = "Easy" THEN wc > 8 /\ wc <= 14
  ELSE IF level = "Moderate" THEN wc > 12 /\ wc <= 18
  ELSE wc > 15 /\ wc <= 25

\* validate_len(level, s)
validate_len(level, s) ==
  LET wc == SplitCount(s) IN
  IF level = "Easy" THEN wc >= 8 /\ wc <= 14
  ELSE IF level = "Moderate" THEN wc >= 12 /\ wc <= 18
  ELSE wc >= 15 /\ wc <= 25

\* What the provider call can do: return a completion, or raise.
ProviderOutcomes ==
  { [ok |-> TRUE,  body |-> <<" ", "s", "1">>],
    [ok |-> TRUE,  body |-> <<"s", "2", " ">>],
    [ok |-> FALSE, body |-> <<"e">>] }

\* "(demo) Use " + word + " naturally in a " + level.lower() + " sentence."
LevelLower(level) ==
  IF level = "Easy" THEN "easy" ELSE IF level = "Moderate" THEN "moderate" ELSE "hard"

DemoText(word, level) ==
  <<"(demo) Use ", word, " naturally in a ", LevelLower(level), " sentence.">>

\* A body that returns the bare error message when the provider raises.
GenerateBody_NoPrefix(word, definition, level, out) ==
  IF ~client THEN DemoText(word, level)
  ELSE IF out.ok THEN <<"text", Strip(out.body)>>
  ELSE out.body

\* The body of generate_one_sentence, without the memo.
GenerateBody(word, definition, level, out) ==
  IF ~client THEN DemoText(word, level)
  ELSE IF out.ok THEN <<"text", Strip(out.body)>>
  ELSE <<"[Provider error] ", out.body>>

\* The provider is asked: a client is configured and the memo has no entry.
CallsProvider(c, word, definition, level) ==
  client /\ <<word, definition, level>> \notin DOMAIN c

\* A memo that does not keep the result of a call in which the provider raised.
CacheAfter_SkipsErrors(c, word, definition, level, out) ==
  IF CallsProvider(c, word, definition, level) /\ out.ok
  THEN [k \in DOMAIN c \cup {<<word, definition, level>>} |->
          IF k \in DOMAIN c THEN c[k] ELSE GenerateBody(word, definition, level, out)]
  ELSE c

\* @st.cache_data: the memo after a call.  Only provider results are kept in
\* the model: a demo result is a function of the arguments, so its memo entry
\* can never be told from a fresh evaluation.
CacheAfter(c, word, definition, level, out) ==
  IF CallsProvider(c, word, definition, level)
  THEN [k \in DOMAIN c \cup {<<word, definition, level>>} |->
          IF k \in DOMAIN c THEN c[k] ELSE GenerateBody(word, definition, level, out)]
  ELSE c

\* generate_one_sentence without @st.cache_data: the body runs on every call.
generate_one_sentence_NoMemo(c, word, definition, level, out) ==
  GenerateBody(word, definition, level, out)

\* generate_one_sentence(word, definition, level) through the memo.
generate_one_sentence(c, word, definition, level, out) ==
  IF <<word, definition, level>> \in DOMAIN c
  THEN c[<<word, definition, level>>]
  ELSE GenerateBody(word, definition, level, out)

\* ------------------------------------------------------------ page slice
\* A Python slice bound, as iloc[a:b] reads it on n rows.
PyBound(a, n) == IF a < 0 THEN Max2(0, a + n) ELSE Min2(a, n)

\* A page slice whose end is not capped at the length of the list.
get_page_slice_Uncapped(page_idx) ==
  LET start == page_idx * WORDS_PER_PAGE
      end == start + WORDS_PER_PAGE
      lo == PyBound(start, TOTAL)
      hi == PyBound(end, TOTAL)
  IN  [rows |-> [k \in 1..Max2(0, hi - lo) |-> lo + k - 1],
       start |-> start, end |-> end]

\* get_page_slice(page_idx): the rows of words_df.iloc[start:end] (numbered
\* from 0, in order), start and end.
get_page_slice(page_idx) ==
  LET start == page_idx * WORDS_PER_PAGE
      end == Min2(start + WORDS_PER_PAGE, TOTAL)
      lo == PyBound(start, TOTAL)
      hi == PyBound(end, TOTAL)
  IN  [rows |-> [k \in 1..Max2(0, hi - lo) |-> lo + k - 1],
       start |-> start, end |-> end]

\* ------------------------------------------------------------ the session
\* st.session_state after the defaults of lines 129-141.
DefaultSession ==
  [page_idx |-> 0, current_word |-> WordAt(0), show_levels |-> FALSE,
   generated |-> <<>>, last_level |-> "Easy", last_search |-> <<>>]

\* The session's current word as a row number (the claims' currentWordIndex).
CurIdx(s) == IndexOf(s.current_word)

\* on_click of back_btn: runs before the script, reading the current_idx of
\* the run that drew the button.
BackOnClick(s, current_idx) ==
  [s EXCEPT !.current_word = WordAt(Max2(0, current_idx - 1)),
            !.page_idx = Max2(0, current_idx - 1) \div WORDS_PER_PAGE,
            !.generated = <<>>,
            !.show_levels = FALSE]

\* A next_btn lambda that leaves the generated sentences in place.
NextOnClick_KeepsList(s, current_idx) ==
  LET last_index == TOTAL - 1 IN
  [s EXCEPT !.current_word = WordAt(Min2(last_index, current_idx + 1)),
            !.page_idx = Min2(last_index, current_idx + 1) \div WORDS_PER_PAGE,
            !.show_levels = FALSE]

\* on_click of next_btn.
NextOnClick(s, current_idx) ==
  LET last_index == TOTAL - 1 IN
  [s EXCEPT !.current_word = WordAt(Min2(last_index, current_idx + 1)),
            !.page_idx = Min2(last_index, current_idx + 1) \div WORDS_PER_PAGE,
            !.generated = <<>>,
            !.show_levels = FALSE]

\* The widget callbacks Streamlit runs before it re-runs the script.
RunCallbacks(s, v, ev) ==
  IF ev.kind = "back" THEN BackOnClick(s, v.current_idx)
  ELSE IF ev.kind = "next" THEN NextOnClick(s, v.current_idx)
  ELSE s

\* The rows words_df["word_lc"].str.contains(pat) selects.
SearchMatches(pat) == {i \in 0..(TOTAL - 1) : RegexSearch(pat, word_lc(i))}

\* A search handler that does not remember the query it has applied.
SearchStep_ForgetsQuery(s, query) ==
  IF query # <<>> /\ query # s.last_search
  THEN LET pat == Lower(Strip(query))
           matches == SearchMatches(pat)
       IN  IF RegexError(pat)
           THEN [ss |-> s, raised |-> TRUE, searched |-> TRUE, hit |-> FALSE]
           ELSE IF matches # {}
           THEN LET first_idx == Min(matches) IN
                [ss |-> [s EXCEPT !.current_word = WordAt(first_idx),
                                  !.page_idx = first_idx \div WORDS_PER_PAGE,
                                  !.generated = <<>>,
                                  !.show_levels = FALSE],
                 raised |-> FALSE, searched |-> TRUE, hit |-> TRUE]
           ELSE [ss |-> s, raised |-> FALSE, searched |-> TRUE, hit |-> FALSE]
  ELSE [ss |-> s, raised |-> FALSE, searched |-> FALSE, hit |-> FALSE]

\* The search box handler.  raised: str.contains raised re.error.
SearchStep(s, query) ==
  IF query # <<>> /\ query # s.last_search
  THEN LET pat == Lower(Strip(query))
           matches == SearchMatches(pat)
       IN  IF RegexError(pat)
           THEN [ss |-> s, raised |-> TRUE, searched |-> TRUE, hit |-> FALSE]
           ELSE IF matches # {}
           THEN LET first_idx == Min(matches) IN
                [ss |-> [s EXCEPT !.current_word = WordAt(first_idx),
                                  !.page_idx = first_idx \div WORDS_PER_PAGE,
                                  !.generated = <<>>,
                                  !.show_levels = FALSE,
                                  !.last_search = query],
                 raised |-> FALSE, searched |-> TRUE, hit |-> TRUE]
           ELSE [ss |-> [s EXCEPT !.last_search = query],
                 raised |-> FALSE, searched |-> TRUE, hit |-> FALSE]
  ELSE [ss |-> s, raised |-> FALSE, searched |-> FALSE, hit |-> FALSE]

\* One level button: its body when clicked.
LevelClick(s, c, definition, level, out) ==
  [s EXCEPT !.last_level = level,
            !.generated = Append(@, <<generate_one_sentence(c, s.current_word,
                                         definition, level, out), level>>)]

\* "Generate Again": its body when clicked.
AgainClick(s, c, definition, out) ==
  LET lvl == s.last_level IN
  [s EXCEPT !.generated = Append(@, <<generate_one_sentence(c, s.current_word,
                                         definition, lvl, out), lvl>>)]

\* The generate section.  levels, again: the buttons were drawn;
\* asked: the triple generate_one_sentence was called with, if it was.
GenerateSection(s, c, definition, ev, out) ==
  LET s1 == IF ev.kind = "generate" THEN [s EXCEPT !.show_levels = TRUE] ELSE s
      lvlHit == s1.show_levels /\ ev.kind = "level"
      s2 == IF lvlHit THEN LevelClick(s1, c, definition, ev.lvl, out) ELSE s1
      againDrawn == s2.show_levels /\ s2.generated # <<>>
      againHit == againDrawn /\ ev.kind = "again"
      s3 == IF againHit THEN AgainClick(s2, c, definition, out) ELSE s2
      asked == IF lvlHit THEN <<<<s.current_word, definition, ev.lvl>>>>
               ELSE IF againHit THEN <<<<s.current_word, definition, s.last_level>>>>
               ELSE <<>>
  IN  [ss |-> s3,
       cache |-> IF asked = <<>> THEN c
                 ELSE CacheAfter(c, asked[1][1], asked[1][2], asked[1][3], out),
       called |-> asked # <<>> /\ CallsProvider(c, asked[1][1], asked[1][2], asked[1][3]),
       asked |-> asked,
       levels |-> s1.show_levels, again |-> againDrawn]

\* Page controls whose "Prev Page" also drops the generated sentences.
PageControls_ClearsList(s, v, ev) ==
  LET s1 == IF ev.kind = "prevpage"
            THEN [s EXCEPT !.page_idx = @ - 1, !.generated = <<>>] ELSE s
      s2 == IF ev.kind = "nextpage" THEN [s1 EXCEPT !.page_idx = @ + 1] ELSE s1
      value == s2.page_idx + 1
      raised == value < 1 \/ value > TOTAL_PAGES
      kept == v.num /\ v.num_value = value
      pg == IF kept THEN (IF ev.kind = "goto" THEN ev.arg ELSE v.num_state)
            ELSE value
  IN  [ss |-> IF ~raised /\ pg - 1 # s2.page_idx
              THEN [s2 EXCEPT !.page_idx = pg - 1] ELSE s2,
       raised |-> raised,
       prev_disabled |-> s.page_idx = 0,
       nextpg_disabled |-> s1.page_idx >= TOTAL_PAGES - 1,
       num_value |-> value, num_state |-> pg]

\* The page controls.  The two buttons get their disabled flag from page_idx
\* as it is when each is drawn; st.number_input raises when value is outside
\* [min_value, max_value].  A number_input without a key is the widget of the
\* last run only if its arguments (here: value) are the same; only then does
\* it return the value the browser holds for it, otherwise its default.
PageControls(s, v, ev) ==
  LET prev_disabled == s.page_idx = 0
      s1 == IF ev.kind = "prevpage" THEN [s EXCEPT !.page_idx = @ - 1] ELSE s
      nextpg_disabled == s1.page_idx >= TOTAL_PAGES - 1
      s2 == IF ev.kind = "nextpage" THEN [s1 EXCEPT !.page_idx = @ + 1] ELSE s1
      value == s2.page_idx + 1
      raised == value < 1 \/ value > TOTAL_PAGES
      kept == v.num /\ v.num_value = value
      pg == IF kept THEN (IF ev.kind = "goto" THEN ev.arg ELSE v.num_state)
            ELSE value
  IN  [ss |-> IF ~raised /\ pg - 1 # s2.page_idx
              THEN [s2 EXCEPT !.page_idx = pg - 1] ELSE s2,
       raised |-> raised,
       prev_disabled |-> prev_disabled, nextpg_disabled |-> nextpg_disabled,
       num_value |-> value, num_state |-> pg]

\* A per-word button that moves the card and keeps the generated list.
PickClick_KeepsList(s, row) == [s EXCEPT !.current_word = WordAt(row)]

\* The body of a clicked per-word button.
PickClick(s, row) ==
  [s EXCEPT !.current_word = WordAt(row), !.generated = <<>>, !.show_levels = FALSE]

\* The per-word buttons of the table page (rows: page_df), keyed
\* "pick_" + word: st.button raises on the second use of a key in one run.
PickButtons(s, rows, ev) ==
  LET dupAt == {k \in 1..Len(rows) :
                  \E j \in 1..(k - 1) : WordAt(rows[j]) = WordAt(rows[k])}
      drawn == IF dupAt = {} THEN Len(rows) ELSE Min(dupAt) - 1
      clicked == {k \in 1..drawn : ev.kind = "pick" /\ WordAt(rows[k]) = ev.word}
  IN  [ss |-> IF clicked # {} THEN PickClick(s, rows[Min(clicked)]) ELSE s,
       raised |-> dupAt # {},
       acted |-> clicked # {},
       picks |-> SubSeq(rows, 1, drawn)]

\* A page on which only the search box was drawn.
BlankView ==
  [stage |-> "search_error", card |-> FALSE, word |-> <<>>, current_idx |-> -1,
   back_disabled |-> TRUE, next_disabled |-> TRUE,
   levels |-> FALSE, again |-> FALSE,
   prev_disabled |-> TRUE, nextpg_disabled |-> TRUE,
   num |-> FALSE, num_value |-> 0, num_state |-> 0,
   table |-> FALSE, page |-> -1, picks |-> <<>>]

\* What a run leaves behind, from the results of its sections: the script
\* stops at the first section that raised, and what it drew up to there is
\* the page.
Finish(se, g, pc, pk, c) ==
  LET current_idx == IndexOf(se.ss.current_word)
      cardView == [BlankView EXCEPT
                     !.card = TRUE, !.word = se.ss.current_word,
                     !.current_idx = current_idx,
                     !.back_disabled = (current_idx = 0),
                     !.next_disabled = (current_idx = TOTAL - 1),
                     !.levels = g.levels, !.again = g.again,
                     !.prev_disabled = pc.prev_disabled,
                     !.nextpg_disabled = pc.nextpg_disabled]
  IN  IF se.raised
      THEN [ss |-> se.ss, cache |-> c, view |-> BlankView,
            searched |-> TRUE, hit |-> FALSE, called |-> FALSE, acted |-> FALSE]
      ELSE IF pc.raised
      THEN [ss |-> pc.ss, cache |-> g.cache,
            view |-> [cardView EXCEPT !.stage = "page_error"],
            searched |-> se.searched, hit |-> se.hit, called |-> g.called,
            acted |-> g.asked # <<>>]
      ELSE [ss |-> pk.ss, cache |-> g.cache,
            view |-> [cardView EXCEPT
                        !.stage = IF pk.raised THEN "key_error" ELSE "done",
                        !.num = TRUE, !.num_value = pc.num_value,
                        !.num_state = pc.num_state,
                        !.table = TRUE, !.page = pc.ss.page_idx,
                        !.picks = pk.picks],
            searched |-> se.searched, hit |-> se.hit, called |-> g.called,
            acted |-> g.asked # <<>> \/ pk.acted]

\* One run of the script on session s (the callbacks already applied), with
\* the browser's widget values (query, and v for the number input), for the
\* interaction ev; out is what the provider does if it is asked.
Run(s, v, c, query, ev, out) ==
  LET se == SearchStep(s, query)
      g == GenerateSection(se.ss, c, DefinitionOf(se.ss.current_word), ev, out)
      pc == PageControls(g.ss, v, ev)
      pk == PickButtons(pc.ss, get_page_slice(pc.ss.page_idx).rows, ev)
  IN  Finish(se, g, pc, pk, c)

\* ------------------------------------------------------------ interactions
\* An interaction: its kind, and the level, page number or word it carries.
Event(kind, lvl, arg, word) == [kind |-> kind, lvl |-> lvl, arg |-> arg, word |-> word]

NoOutcome == [ok |-> TRUE, body |-> <<>>]

\* The texts a user types into the search box.
Queries ==
  { <<>>, <<" ">>, <<" ", "B", "a">>, <<"d">>, <<".">>, <<"(">>, <<"c", "d">> }

\* The sessions followed: the CSV (n rows, with or without a repeated word),
\* whether an API key is configured, and the texts the user searches for.
Configs ==
  { [n |-> MaxN, dup |-> "none", client |-> FALSE, queries |-> {<<>>, <<"d">>}],
    [n |-> MaxN, dup |-> "far", client |-> FALSE,
     queries |-> {<<>>, <<"a", "b", "c">>}],
    [n |-> 5, dup |-> "near", client |-> FALSE, queries |-> {<<>>, <<"b">>}],
    [n |-> 3, dup |-> "none", client |-> FALSE, queries |-> Queries],
    [n |-> 2, dup |-> "none", client |-> TRUE, queries |-> {<<>>, <<"B">>}],
    [n |-> 1, dup |-> "none", client |-> FALSE, queries |-> {<<>>, <<"b">>}] }

\* The interaction ev with the search box at query: callbacks, then the script.
Handle(ev, query, out) ==
  \E s0 \in {RunCallbacks(ss, view, ev)} :
  \E se \in {SearchStep(s0, query)} :
  \E g \in {GenerateSection(se.ss, cache, DefinitionOf(se.ss.current_word), ev, out)} :
  \E pc \in {PageControls(g.ss, view, ev)} :
  \E page_df \in {get_page_slice(pc.ss.page_idx).rows} :
  \E pk \in {PickButtons(pc.ss, page_df, ev)} :
  \E r \in {Finish(se, g, pc, pk, cache)} :
     /\ ss' = r.ss
     /\ view' = r.view
     /\ cache' = r.cache
     /\ q' = query
     /\ last' = [kind |-> ev.kind, arg |-> ev.arg,
                 gen |-> Len(ss.generated),
                 desync |-> (ss.page_idx # CurIdx(ss) \div WORDS_PER_PAGE),
                 searched |-> r.searched, hit |-> r.hit, called |-> r.called,
                 failed |-> (r.called /\ ~out.ok), acted |-> r.acted]
     /\ UNCHANGED <<words, client, queries, walk, sample>>

\* No sentence has been validated.
NoSample ==
  [level |-> "Easy", lead |-> <<>>, sep |-> <<>>, trail |-> <<>>, n |-> 0,
   s |-> <<>>, result |-> FALSE]

\* No page has been sliced.
NoWalk == [p |-> -1, rows |-> <<>>, start |-> 0, end |-> 0, seen |-> <<>>]

\* The first run of the script in a session.
Init ==
  /\ walk = NoWalk
  /\ sample = NoSample
  /\ \E cfg \in Configs :
        /\ words = Store(cfg.n, cfg.dup)
        /\ client = cfg.client
        /\ queries = cfg.queries
  /\ q = <<>>
  /\ cache = <<>>
  /\ LET r == Run(DefaultSession, BlankView, <<>>, <<>>,
                  Event("load", "Easy", 0, <<>>), NoOutcome) IN
     /\ ss = r.ss
     /\ view = r.view
  /\ last = [kind |-> "load", arg |-> 0, gen |-> 0, desync |-> FALSE,
             searched |-> FALSE, hit |-> FALSE, called |-> FALSE, failed |-> FALSE,
             acted |-> FALSE]

\* The user commits a new text in the search box.
TypeQuery ==
  \E query \in queries \ {q} : Handle(Event("query", "Easy", 0, <<>>), query, NoOutcome)

ClickBack ==
  /\ view.card /\ ~view.back_disabled
  /\ Handle(Event("back", "Easy", view.current_idx, <<>>), q, NoOutcome)

ClickNext ==
  /\ view.card /\ ~view.next_disabled
  /\ Handle(Event("next", "Easy", view.current_idx, <<>>), q, NoOutcome)

ClickGenerate ==
  /\ view.card
  /\ Handle(Event("generate", "Easy", 0, <<>>), q, NoOutcome)

\* The provider's possible answers to this click; none is needed when the
\* click cannot reach the provider.
Outcomes(level) ==
  IF CallsProvider(cache, ss.current_word, DefinitionOf(ss.current_word), level)
  THEN ProviderOutcomes ELSE {NoOutcome}

\* A generating click is followed while the list and the calls are in bounds.
GenInBounds(level) ==
  /\ Len(ss.generated) < MaxGen
  /\ CallsProvider(cache, ss.current_word, DefinitionOf(ss.current_word), level)
       => Cardinality(DOMAIN cache) < MaxCalls

ClickLevel ==
  /\ view.levels
  /\ \E lvl \in Levels :
        /\ GenInBounds(lvl)
        /\ \E out \in Outcomes(lvl) : Handle(Event("level", lvl, 0, <<>>), q, out)

ClickAgain ==
  /\ view.again
  /\ GenInBounds(ss.last_level)
  /\ \E out \in Outcomes(ss.last_level) :
        Handle(Event("again", "Easy", 0, <<>>), q, out)

ClickPrevPage ==
  /\ view.card /\ ~view.prev_disabled
  /\ ss.page_idx > -MaxUnder
  /\ Handle(Event("prevpage", "Easy", 0, <<>>), q, NoOutcome)

ClickNextPage ==
  /\ view.card /\ ~view.nextpg_disabled
  /\ Handle(Event("nextpage", "Easy", 0, <<>>), q, NoOutcome)

\* The user sets "Go to page": the browser keeps it within min and max.
GoToPage ==
  /\ view.num
  /\ \E pg \in (1..TOTAL_PAGES) \ {view.num_state} :
        Handle(Event("goto", "Easy", pg, <<>>), q, NoOutcome)

ClickPick ==
  \E k \in 1..Len(view.picks) :
     Handle(Event("pick", "Easy", view.picks[k], WordAt(view.picks[k])), q, NoOutcome)

Next ==
  \/ TypeQuery
  \/ ClickBack
  \/ ClickNext
  \/ ClickGenerate
  \/ ClickLevel
  \/ ClickAgain
  \/ ClickPrevPage
  \/ ClickNextPage
  \/ GoToPage
  \/ ClickPick

Spec == Init /\ [][Next]_vars

\* ------------------------------------------------------- the page-slice walk
\* get_page_slice on word lists of every length up to MaxSliceN: the table
\* pages 0, 1, ... are sliced in turn, and seen counts, per row, the slices
\* it was in.
WideStore(n) == [k \in 1..n |-> [j \in 1..k |-> "a"]]

InitSlice ==
  /\ \E n \in 1..MaxSliceN : words = WideStore(n)
  /\ client = FALSE
  /\ queries = {}
  /\ ss = DefaultSession
  /\ q = <<>>
  /\ view = BlankView
  /\ cache = <<>>
  /\ last = [kind |-> "load", arg |-> 0, gen |-> 0, desync |-> FALSE,
             searched |-> FALSE, hit |-> FALSE, called |-> FALSE, failed |-> FALSE,
             acted |-> FALSE]
  /\ walk = [NoWalk EXCEPT !.seen = [i \in 1..TOTAL |-> 0]]
  /\ sample = NoSample

SliceStep ==
  /\ walk.p < TOTAL_PAGES - 1
  /\ \E sl \in {get_page_slice(walk.p + 1)} :
        walk' = [p |-> walk.p + 1, rows |-> sl.rows, start |-> sl.start,
                 end |-> sl.end,
                 seen |-> [i \in 1..TOTAL |->
                             IF \E k \in 1..Len(sl.rows) : sl.rows[k] = i - 1
                             THEN walk.seen[i] + 1 ELSE walk.seen[i]]]
  /\ UNCHANGED <<words, client, queries, ss, q, view, cache, last, sample>>

NextSlice == SliceStep

SpecSlice == InitSlice /\ [][NextSlice]_vars

\* ------------------------------------------------------ the length check
\* validate_len on sentences of 0 to MaxWords words at each level: a
\* sentence starts with lead, its words are joined by sep, and it ends with
\* trail; every word added is followed by a new validate_len of the whole.
Leads == {<<>>, <<" ">>}
Seps == {<<" ">>, <<"\t">>, <<" ", "\n">>}
Trails == {<<>>, <<" ", " ">>}

\* The k-th word of a sentence.
SampleWord(k) == IF k % 2 = 1 THEN <<"c", "a", "t">> ELSE <<"o", "n", ".">>

InitLen ==
  /\ words = WideStore(1)
  /\ client = FALSE
  /\ queries = {}
  /\ ss = DefaultSession
  /\ q = <<>>
  /\ view = BlankView
  /\ cache = <<>>
  /\ last = [kind |-> "load", arg |-> 0, gen |-> 0, desync |-> FALSE,
             searched |-> FALSE, hit |-> FALSE, called |-> FALSE, failed |-> FALSE,
             acted |-> FALSE]
  /\ walk = NoWalk
  /\ \E level \in Levels, lead \in Leads, sep \in Seps, trail \in Trails :
        sample = [level |-> level, lead |-> lead, sep |-> sep, trail |-> trail,
                  n |-> 0, s |-> lead,
                  result |-> validate_len(level, lead \o trail)]

AddWord ==
  /\ sample.n < MaxWords
  /\ \E s \in {sample.s \o (IF sample.n = 0 THEN <<>> ELSE sample.sep)
                          \o SampleWord(sample.n + 1)} :
        sample' = [sample EXCEPT !.n = @ + 1, !.s = s,
                                 !.result = validate_len(sample.level, s \o sample.trail)]
  /\ UNCHANGED <<words, client, queries, ss, q, view, cache, last, walk>>

NextLen == AddWord

SpecLen == InitLen /\ [][NextLen]_vars

\* ----------------------------------------------------------------- claims
IsPrefix(a, b) == Len(a) <= Len(b) /\ SubSeq(b, 1, Len(a)) = a

\* No two rows of the word list hold the same word.
UniqueWords == \A i, j \in 0..(TOTAL - 1) : WordAt(i) = WordAt(j) => i = j

\* pat occurs in s as a plain substring.
IsSubstring(pat, s) ==
  \E k \in 0..(Len(s) - Len(pat)) : \A j \in 1..Len(pat) : pat[j] = s[k + j]

\* The session's current word as a row number.
Cur == CurIdx(ss)

\* The rows whose trimmed, lower-cased word has the trimmed, lower-cased
\* query as a substring.
SubstringMatches(query) ==
  {i \in 0..(TOTAL - 1) : IsSubstring(Lower(Strip(query)), Lower(Strip(WordAt(i))))}

PageKinds == {"prevpage", "nextpage", "goto"}

\* The last interaction moved the flashcard to a word.
Moved ==
  \/ last.kind \in {"back", "next"}
  \/ last.kind = "pick" /\ last.acted
  \/ last.kind = "query" /\ last.hit

\* C1: with unique words, a Next click made while the session's current
\* word is row i < N-1 leaves the session on row i+1, and a Back click made
\* while it is row i > 0 leaves it on row i-1.
C1_StepFromSessionWord ==
  [][UniqueWords =>
       /\ (last'.kind = "next" /\ Cur < TOTAL - 1) => CurIdx(ss') = Cur + 1
       /\ (last'.kind = "back" /\ Cur > 0) => CurIdx(ss') = Cur - 1]_vars

\* C2: after every run of the script the page shows the session as the run
\* left it: the flashcard word is the session's current word, the Back and
\* Next flags come from that word's row, the table page is page_idx.
C2_ViewIsPostMutation ==
  UniqueWords =>
  /\ view.card =>
       /\ view.word = ss.current_word
       /\ view.current_idx = Cur
       /\ view.back_disabled = (Cur = 0)
       /\ view.next_disabled = (Cur = TOTAL - 1)
  /\ view.table => view.page = ss.page_idx

\* C3: with unique words, a Next click made while the session's current
\* word is the last row changes nothing in the session, and neither does a
\* Back click made while it is row 0.
C3_NoOpAtTheEnds ==
  [][UniqueWords =>
       /\ (last'.kind = "next" /\ Cur = TOTAL - 1) => ss' = ss
       /\ (last'.kind = "back" /\ Cur = 0) => ss' = ss]_vars

\* C4: after a search hit, a Back or Next click or a per-word pick, the list
\* of generated sentences is empty and the level buttons are hidden.
C4_MoveClearsGenerated ==
  Moved => ss.generated = <<>> /\ ss.show_levels = FALSE

\* C4 witness: a per-word pick of the word already on the card, made while
\* generated sentences were listed (the run drew "Generate Again" before the
\* pick emptied the list).
C4_Witness ==
  /\ last.kind = "pick" /\ last.acted /\ last.gen > 0
  /\ view.again /\ view.levels
  /\ view.current_idx = Cur
  /\ ss.generated = <<>> /\ ~ss.show_levels

\* The row the last move addressed: the row picked, the row before or after
\* the card the click was made on, the first row the search selects.
Target ==
  IF last.kind = "pick" THEN last.arg
  ELSE IF last.kind = "back" THEN Max2(0, last.arg - 1)
  ELSE IF last.kind = "next" THEN Min2(TOTAL - 1, last.arg + 1)
  ELSE Min(SearchMatches(Lower(Strip(q))))

\* C5: with unique words, after a move to row i (a search hit, Back, Next or
\* a per-word pick) the session's current word is row i and page_idx is
\* i div WORDS_PER_PAGE.
C5_MoveSetsWordAndPage ==
  (UniqueWords /\ Moved) =>
     /\ Cur = Target
     /\ ss.page_idx = Target \div WORDS_PER_PAGE

C7_SearchFirstSubstring ==
  (last.kind = "query" /\ last.searched /\ SubstringMatches(q) # {}) =>
     /\ Cur = Min(SubstringMatches(q))
     /\ ss.page_idx = Min(SubstringMatches(q)) \div WORDS_PER_PAGE

\* C8: a run of the script that was not caused by a change of the search
\* box does not apply the search again: the handler's condition is false,
\* and a generate or page interaction keeps the current word and the
\* sentences generated so far.
C8_SearchAppliedOnce ==
  [][last'.kind # "query" =>
       /\ ~last'.searched
       /\ last'.kind \in PageKinds \cup {"generate", "level", "again"} =>
            /\ ss'.current_word = ss.current_word
            /\ IsPrefix(ss.generated, ss'.generated)]_vars

\* C8 witness: "Generate Again" clicked with the applied query still in the
\* search box, after the user left the row the query had moved the card to.
C8_Witness ==
  /\ last.kind = "again" /\ last.acted
  /\ q # <<>> /\ q = ss.last_search
  /\ SearchMatches(Lower(Strip(q))) # {}
  /\ Cur # Min(SearchMatches(Lower(Strip(q))))
  /\ Len(ss.generated) = 2

\* C9: a new, non-empty query that no word contains changes nothing in the
\* session but last_search, and the script does not end in an error.
C9_LookupMissIgnored ==
  [][(last'.kind = "query" /\ q' # <<>> /\ q' # ss.last_search
        /\ SubstringMatches(q') = {}) =>
       /\ ss' = [ss EXCEPT !.last_search = q']
       /\ view'.stage # "search_error"]_vars

\* C10: the slice of a valid page p starts at p * WORDS_PER_PAGE, ends at
\* min((p + 1) * WORDS_PER_PAGE, N), holds the min(WORDS_PER_PAGE,
\* N - p * WORDS_PER_PAGE) rows from start on in order, no row is in two
\* slices, and after the last page every row has been in one.
C10_SlicesPartition ==
  walk.p >= 0 =>
     /\ walk.start = walk.p * WORDS_PER_PAGE
     /\ walk.end = Min2((walk.p + 1) * WORDS_PER_PAGE, TOTAL)
     /\ Len(walk.rows) = Min2(WORDS_PER_PAGE, TOTAL - walk.p * WORDS_PER_PAGE)
     /\ Len(walk.rows) = walk.end - walk.start
     /\ \A k \in 1..Len(walk.rows) : walk.rows[k] = walk.start + k - 1
     /\ \A i \in 1..TOTAL : walk.seen[i] <= 1
     /\ walk.p = TOTAL_PAGES - 1 => \A i \in 1..TOTAL : walk.seen[i] = 1

\* C10 witness: the last of four pages, a short one.
C10_Witness ==
  /\ walk.p = TOTAL_PAGES - 1 /\ walk.p = 3
  /\ Len(walk.rows) \in 1..(WORDS_PER_PAGE - 1)
  /\ \A i \in 1..TOTAL : walk.seen[i] = 1

\* The triple a generate click made now, at level lvl, passes to
\* generate_one_sentence.
Asked(lvl) == <<ss.current_word, DefinitionOf(ss.current_word), lvl>>

\* The newest entry of a session's generated list.
LastEntry(s) == s.generated[Len(s.generated)]

\* The texts generate_one_sentence returns for a provider failure.
ErrorTexts == {<<"[Provider error] ", o.body>> : o \in {p \in ProviderOutcomes : ~p.ok}}

GenKinds == {"level", "again"}

\* C11: with a provider configured, every "Generate Again" click that
\* generates asks the provider.
C11_AgainCallsProvider ==
  (client /\ last.kind = "again" /\ last.acted) => last.called

\* C12: the memo only grows and its entries never change; the provider is
\* asked on generate clicks only; a level click for a triple the memo holds
\* does not ask the provider and appends the memo's text (the one the first
\* call returned), and a level click for a new triple asks it once and puts
\* the text it appends into the memo.
C12_LevelMemoized ==
  [][/\ \A k \in DOMAIN cache : k \in DOMAIN cache' /\ cache'[k] = cache[k]
     /\ last'.called => last'.kind \in GenKinds
     /\ (client /\ last'.kind = "level" /\ last'.acted) =>
          LET t == Asked(ss'.last_level)
              e == LastEntry(ss')
          IN  /\ ss'.generated = Append(ss.generated, e)
              /\ e[2] = ss'.last_level
              /\ t \in DOMAIN cache =>
                   ~last'.called /\ e[1] = cache[t] /\ cache' = cache
              /\ t \notin DOMAIN cache =>
                   /\ last'.called
                   /\ DOMAIN cache' = DOMAIN cache \cup {t}
                   /\ cache'[t] = e[1]]_vars

\* C12 witness: a level click answered from the memo after the user had
\* left the word and come back (the list had been emptied in between).
C12_Witness ==
  /\ client /\ last.kind = "level" /\ last.acted /\ ~last.called
  /\ last.gen = 0 /\ Len(ss.generated) = 1
  /\ Asked(ss.last_level) \in DOMAIN cache
  /\ ss.generated[1][1] = cache[Asked(ss.last_level)]
  /\ Cardinality(DOMAIN cache) = 2

\* C13: a generate click on which the provider raises appends
\* "[Provider error] " + message to the generated list as its newest entry,
\* keeps the current word, page_idx and show_levels, and the script runs as
\* far as the run before it did, with the card and the generate buttons
\* drawn.
C13_ProviderErrorIsAResult ==
  [][last'.failed =>
       /\ \E txt \in ErrorTexts :
             ss'.generated = Append(ss.generated, <<txt, ss'.last_level>>)
       /\ ss'.current_word = ss.current_word
       /\ ss'.page_idx = ss.page_idx
       /\ ss'.show_levels = ss.show_levels
       /\ view'.stage = view.stage
       /\ view'.card /\ view'.levels /\ view'.again]_vars

\* C13 witness: the provider raised on the second generate click for a word,
\* after a completion on the first.
C13_Witness ==
  /\ last.failed /\ view.stage = "done"
  /\ Len(ss.generated) = 2
  /\ ss.generated[1][1] \notin ErrorTexts
  /\ ss.generated[2][1] \in ErrorTexts

\* Every entry of the generated list is what generate_one_sentence returns
\* for the session's current word at the entry's level.
EntriesOfCurrentWord(s, c) ==
  \A k \in 1..Len(s.generated) :
     LET lvl == s.generated[k][2]
         t == <<s.current_word, DefinitionOf(s.current_word), lvl>>
     IN  IF client THEN t \in DOMAIN c /\ s.generated[k][1] = c[t]
         ELSE s.generated[k][1] = DemoText(s.current_word, lvl)

\* C14: an interaction leaves the generated list empty, as it was, or as it
\* was with one entry appended; it leaves it empty when the current word
\* changes; and every entry is a result for the current word.
C14_GeneratedAppendOnly ==
  [][/\ \/ ss'.generated = <<>>
        \/ /\ IsPrefix(ss.generated, ss'.generated)
           /\ Len(ss'.generated) <= Len(ss.generated) + 1
     /\ ss'.current_word # ss.current_word => ss'.generated = <<>>
     /\ EntriesOfCurrentWord(ss', cache')]_vars

\* C14 witness: two sentences of different levels listed for a word the
\* user moved to.
C14_Witness ==
  /\ ~client /\ Cur # 0
  /\ last.kind = "level" /\ last.gen = 1 /\ Len(ss.generated) = 2
  /\ ss.generated[1][2] # ss.generated[2][2]
  /\ EntriesOfCurrentWord(ss, cache)

\* C19: a call in which the provider raised leaves its error text in the
\* memo, and a later generate click (level button or "Generate Again") for
\* a triple whose memo entry is an error text appends that text without
\* asking the provider.
C19_ErrorMemoized ==
  [][/\ last'.failed =>
          /\ Asked(ss'.last_level) \in DOMAIN cache'
          /\ cache'[Asked(ss'.last_level)] \in ErrorTexts
     /\ (last'.kind \in GenKinds /\ last'.acted
           /\ Asked(ss'.last_level) \in DOMAIN cache
           /\ cache[Asked(ss'.last_level)] \in ErrorTexts) =>
          /\ ~last'.called
          /\ ss'.generated =
               Append(ss.generated, <<cache[Asked(ss'.last_level)], ss'.last_level>>)
          /\ cache' = cache]_vars

\* C19 witness: "Generate Again" after the provider raised: the error text
\* is listed twice and the provider was not asked again.
C19_Witness ==
  /\ last.kind = "again" /\ last.acted /\ ~last.called
  /\ Len(ss.generated) = 2
  /\ ss.generated[1][1] \in ErrorTexts
  /\ ss.generated[2] = ss.generated[1]

\* The range of word counts the sentences of a level are to have.
LevelRange(level) ==
  IF level = "Easy" THEN 8..14 ELSE IF level = "Moderate" THEN 12..18 ELSE 15..25

\* C15: validate_len of a sentence is true exactly when the sentence's
\* number of whitespace-delimited words is in the range of its level:
\* 8..14 for Easy, 12..18 for Moderate, 15..25 for Hard.
C15_ValidateLenRanges ==
  sample.result = (sample.n \in LevelRange(sample.level))

\* C15 witness: an Easy sentence of 8 words, with whitespace around it and
\* two-character separators, is valid.
C15_Witness ==
  /\ sample.level = "Easy" /\ sample.n = 8 /\ sample.result
  /\ sample.lead # <<>> /\ sample.trail # <<>> /\ Len(sample.sep) = 2

\* C16: whatever the word list, with or without a repeated word, a Next
\* click never leaves the session's current word on an earlier row than it
\* was on, and a Back click never on a later one.
C16_NeverWraps ==
  [][/\ last'.kind = "next" => CurIdx(ss') >= Cur
     /\ last'.kind = "back" => CurIdx(ss') <= Cur]_vars

\* C17: a query that is empty, or empty once trimmed, changes neither the
\* current word, page_idx, the generated list nor show_levels.
C17_BlankQueryIgnored ==
  [][(last'.kind = "query" /\ Strip(q') = <<>>) =>
       /\ ss'.current_word = ss.current_word
       /\ ss'.page_idx = ss.page_idx
       /\ ss'.generated = ss.generated
       /\ ss'.show_levels = ss.show_levels]_vars

\* C18: page_idx is always a page of the table: 0 <= page_idx < TOTAL_PAGES.
C18_PageInRange ==
  0 <= ss.page_idx /\ ss.page_idx < TOTAL_PAGES
====
